---- MODULE Spec2Model ----
(***************************************************************************)
(* Chips-and-Circuits routing engine: the lattice/occupancy data model,    *)
(* the Chip accounting (intersections, collisions, cost), the path         *)
(* searches (bounded BFS, exact-length BFS, A-star), the sequencers and the    *)
(* rip-and-reroute loops (IRRA, A-star optimizer).                           *)
(*                                                                         *)
(* A Python Wire has identity semantics (no __eq__/__hash__), so the       *)
(* occupancy sets hold object references.  Wire objects are modelled as    *)
(* ids into the heap `objs`; chip.wires is the sequence `wires` of ids.    *)
(***************************************************************************)
EXTENDS Integers, Sequences, FiniteSets, TLC

VARIABLES
    lay,                      \* which chip (print + netlist files) was loaded
    netlist,                  \* Chip.netlist: sequence of <<gate id, gate id>>
    wires,                    \* Chip.wires: sequence of Wire object ids
    objs,                     \* heap of Wire objects: id -> [gates, segs]
    occupancy,                \* Occupancy.occupancy: cell -> set of occupants
    occupancy_without_gates,  \* Occupancy.occupancy_without_gates
    last,                     \* the operation that produced this state
    pc,                       \* where the running algorithm object stands
    opt,                      \* the fields and loop variables of A_star_optimize
    irra,                     \* the fields and loop variables of IRRA_PR / IRRA_A_star
    rno,                      \* the loop variables of run_random_netlist_orders
    ret                       \* the last call of a search, with what it returned

chipVars == <<lay, netlist, wires, objs, occupancy, occupancy_without_gates>>
vars == <<lay, netlist, wires, objs, occupancy, occupancy_without_gates, last, pc, opt,
          irra, rno, ret>>

-----------------------------------------------------------------------------
(* Bounds of the model *)

\* number of Wire objects that can be alive at once: the wires of the chip
\* and the replaced objects that an occupancy set still holds
MaxObjs == 10
\* replaced objects that add_entire_wire may leave behind in the API runs
MaxGhosts == 1
\* largest reroute_n_wires given to optimize
MaxReroute == 2
\* amount_of_random_iterations given to optimize
MaxRandomIterations == 2
\* iterations given to IRRA
MaxIterations == 2
\* add_entire_wire inputs: lattice paths of at most manhattan + MaxLoadExtra edges
MaxLoadExtra == 0
\* largest max_offset a sequencer is constructed with
MaxOffset == 4

-----------------------------------------------------------------------------
(* Program constants *)

INTERSECTION_COST == 300
COLLISION_COST == 1000000
\* the default of optimize's total_permutations_limit
total_permutations_limit == 500000
padding == 1
grid_z_max == 7

\* the "GATE" sentinel of the occupancy sets (wire ids are 1..MaxObjs)
GATE == 0

NoWire == [gates |-> <<>>, segs |-> <<>>]

-----------------------------------------------------------------------------
(* Chips: gate id -> (x, y), gates live at z = 0; netlist rows as read *)

Layouts == <<
    \* 1: four gates around one free cell, four nets
    [gates |-> << <<0,1,0>>, <<2,1,0>>, <<1,0,0>>, <<1,2,0>> >>,
     netlist |-> << <<1,2>>, <<3,4>>, <<1,4>>, <<3,2>> >>],
    \* 2: two nets from one gate, and a net between adjacent gates
    [gates |-> << <<1,1,0>>, <<3,1,0>>, <<3,2,0>> >>,
     netlist |-> << <<1,2>>, <<1,3>>, <<2,3>> >>],
    \* 3: the same pair of gates in two rows of the netlist
    [gates |-> << <<1,1,0>>, <<3,1,0>> >>,
     netlist |-> << <<1,2>>, <<1,2>> >>],
    \* 4: four gates in a square at the corner of the grid, two diagonal nets
    [gates |-> << <<0,0,0>>, <<1,0,0>>, <<0,1,0>>, <<1,1,0>> >>,
     netlist |-> << <<2,3>>, <<1,4>> >>]
>>

Abs(n) == IF n < 0 THEN -n ELSE n
Max(S) == CHOOSE m \in S : \A n \in S : n <= m
Range(s) == {s[i] : i \in DOMAIN s}

manhattan_distance(coord1, coord2) ==
    Abs(coord1[1] - coord2[1]) + Abs(coord1[2] - coord2[2]) + Abs(coord1[3] - coord2[3])

all_offset_combos ==
    << <<1,0,0>>, <<-1,0,0>>, <<0,1,0>>, <<0,-1,0>>, <<0,0,1>>, <<0,0,-1>> >>

\* a grid one cell wider than set_grid_size makes it, below and above the
\* layers 0..7 too
GridOfWide(l) ==
    LET gc == {Layouts[l].gates[g] : g \in DOMAIN Layouts[l].gates}
    IN  [x |-> <<-padding, Max({c[1] : c \in gc}) + padding + 1>>,
         y |-> <<-padding, Max({c[2] : c \in gc}) + padding + 1>>,
         z |-> <<-1, grid_z_max + 1>>]

\* Chip.set_grid_size and Chip.coord_within_boundaries for the chip l
GridOf(l) ==
    LET gc == {Layouts[l].gates[g] : g \in DOMAIN Layouts[l].gates}
    IN  [x |-> <<-padding + 1, Max({c[1] : c \in gc}) + padding>>,
         y |-> <<-padding + 1, Max({c[2] : c \in gc}) + padding>>,
         z |-> <<0, grid_z_max>>]

WithinGrid(g, coord) ==
    /\ g.x[1] <= coord[1] /\ coord[1] <= g.x[2]
    /\ g.y[1] <= coord[2] /\ coord[2] <= g.y[2]
    /\ g.z[1] <= coord[3] /\ coord[3] <= g.z[2]

\* the geometry of every chip, computed once (get_neighbours is an lru_cache)
Geometry ==
    [l \in DOMAIN Layouts |->
        LET g == GridOf(l)
            cells == (g.x[1]..g.x[2]) \X (g.y[1]..g.y[2]) \X (g.z[1]..g.z[2])
        IN  [grid |-> g,
             cells |-> cells,
             gate_coords |-> {Layouts[l].gates[k] : k \in DOMAIN Layouts[l].gates},
             neighbours |-> [coord \in cells |->
                 SelectSeq([k \in 1..6 |->
                              <<coord[1] + all_offset_combos[k][1],
                                coord[2] + all_offset_combos[k][2],
                                coord[3] + all_offset_combos[k][3]>>],
                           LAMBDA n : WithinGrid(g, n))]]]

gates == Layouts[lay].gates
gate_coords == Geometry[lay].gate_coords
grid_range_x == Geometry[lay].grid.x
grid_range_y == Geometry[lay].grid.y
grid_range_z == Geometry[lay].grid.z
Cells == Geometry[lay].cells

coord_within_boundaries(coord) == WithinGrid(Geometry[lay].grid, coord)

\* Chip.get_neighbours: the in-bounds 6-neighbours, in offset order
get_neighbours(coord) == Geometry[lay].neighbours[coord]

-----------------------------------------------------------------------------
(* Wire *)

\* Wire.__init__
NewWire(gate1, gate2) == [gates |-> <<gate1, gate2>>, segs |-> <<gate1, gate2>>]

\* Wire.length
length(w) == Len(w.segs) - 1

are_points_neighbours(coord1, coord2) == manhattan_distance(coord1, coord2) = 1

\* Wire.is_wire_connected
is_wire_connected(w) ==
    \A i \in 1..(Len(w.segs) - 1) : are_points_neighbours(w.segs[i], w.segs[i + 1])

\* Wire.append_wire_segment
append_wire_segment(w, coords) ==
    LET s == w.segs
        n == Len(s)
    IN  IF coords \in Range(w.gates) THEN w
        ELSE IF are_points_neighbours(coords, s[n - 1])
             THEN [w EXCEPT !.segs = SubSeq(s, 1, n - 1) \o <<coords>> \o <<s[n]>>]
        ELSE IF are_points_neighbours(coords, s[2])
             THEN [w EXCEPT !.segs = <<s[1]>> \o <<coords>> \o SubSeq(s, 2, n)]
        ELSE w

\* Wire.append_wire_segment_list
RECURSIVE append_wire_segment_list(_, _)
append_wire_segment_list(w, coords_list) ==
    IF coords_list = <<>> THEN w
    ELSE append_wire_segment_list(append_wire_segment(w, Head(coords_list)),
                                  Tail(coords_list))

\* Wire.reset
reset(w) == IF Len(w.segs) >= 2 THEN [w EXCEPT !.segs = w.gates] ELSE w

-----------------------------------------------------------------------------
(* Occupancy, on a chip value ch = [wires, objs, occ, occwo] *)

Chip == [wires |-> wires, objs |-> objs,
         occ |-> occupancy, occwo |-> occupancy_without_gates]

\* A defaultdict(set) is held as the relation {<<coords, occupant>>}: a key
\* with an empty set and an absent key read the same everywhere in the code.
At(dict, coords) == {p[2] : p \in {q \in dict : q[1] = coords}}
Keys(dict) == {p[1] : p \in dict}

\* an occupancy query that never reports the GATE sentinel
get_coord_occupancy_of_wires(ch, coords, exclude_gates) == At(ch.occwo, coords)

\* Occupancy.get_coord_occupancy
get_coord_occupancy(ch, coords, exclude_gates) ==
    IF exclude_gates THEN At(ch.occwo, coords) ELSE At(ch.occ, coords)

\* Occupancy.add_wire_segment
add_wire_segment(ch, coords, w) ==
    [ch EXCEPT !.occ = @ \cup {<<coords, w>>}, !.occwo = @ \cup {<<coords, w>>}]

\* Occupancy.add_wire
RECURSIVE add_wire(_, _, _)
add_wire(ch, wire_segment_list, w) ==
    IF wire_segment_list = <<>> THEN ch
    ELSE add_wire(add_wire_segment(ch, Head(wire_segment_list), w),
                  Tail(wire_segment_list), w)

\* a removal that empties the occupancy set of the cell
remove_all_from_occupancy(ch, coord, w) ==
    [ch EXCEPT !.occ = {p \in @ : p[1] # coord}, !.occwo = {p \in @ : p[1] # coord}]

\* Occupancy.remove_from_occupancy
remove_from_occupancy(ch, coord, w) ==
    IF At(ch.occ, coord) = {} THEN ch
    ELSE IF <<coord, GATE>> \in ch.occ THEN ch
    ELSE [ch EXCEPT !.occ = @ \ {<<coord, w>>}, !.occwo = @ \ {<<coord, w>>}]

\* Occupancy.remove_wire_from_occupancy
RECURSIVE remove_coords(_, _, _)
remove_coords(ch, coords_list, w) ==
    IF coords_list = <<>> THEN ch
    ELSE remove_coords(remove_from_occupancy(ch, Head(coords_list), w),
                       Tail(coords_list), w)

remove_wire_from_occupancy(ch, w) == remove_coords(ch, ch.objs[w].segs, w)

-----------------------------------------------------------------------------
(* Chip *)

\* Chip.wire_segment_list
wire_segment_list(ch) == [i \in DOMAIN ch.wires |-> ch.objs[ch.wires[i]].segs]

\* ids referenced from chip.wires or from an occupancy set
LiveIds(ch) ==
    (Range(ch.wires) \cup {p[2] : p \in ch.occ} \cup {p[2] : p \in ch.occwo}) \ {GATE}

\* Chip.add_entire_wire: a new Wire object replaces the first wire with the
\* same pair of end cells; its interior cells are registered in the occupancy
add_entire_wire(ch, segment_list) ==
    LET gate_1_coords == segment_list[1]
        gate_2_coords == segment_list[Len(segment_list)]
        interior == SubSeq(segment_list, 2, Len(segment_list) - 1)
        wire == append_wire_segment_list(NewWire(gate_1_coords, gate_2_coords), interior)
        ends(i) == {ch.objs[ch.wires[i]].segs[1],
                    ch.objs[ch.wires[i]].segs[Len(ch.objs[ch.wires[i]].segs)]}
        matches == {i \in DOMAIN ch.wires : ends(i) = {gate_1_coords, gate_2_coords}}
    IN  IF matches = {} THEN ch
        ELSE LET i == CHOOSE m \in matches : \A o \in matches : m <= o
                 live == LiveIds([ch EXCEPT !.wires[i] = GATE])
                 id == CHOOSE k \in 1..MaxObjs :
                           k \notin live /\ \A j \in 1..(k - 1) : j \in live
             IN  add_wire([ch EXCEPT !.wires[i] = id, !.objs[id] = wire], interior, id)

\* Chip.add_entire_wires
RECURSIVE add_entire_wires(_, _)
add_entire_wires(ch, list_all) ==
    IF list_all = <<>> THEN ch
    ELSE add_entire_wires(add_entire_wire(ch, Head(list_all)), Tail(list_all))

\* Chip.reset_wire
reset_wire(ch, w) ==
    LET removed == remove_wire_from_occupancy(ch, w)
    IN  [removed EXCEPT !.objs[w] = reset(@)]

\* Chip.reset_wires / Chip.reset_all_wires
RECURSIVE reset_wires(_, _)
reset_wires(ch, wire_list) ==
    IF wire_list = <<>> THEN ch
    ELSE reset_wires(reset_wire(ch, Head(wire_list)), Tail(wire_list))

reset_all_wires(ch) == reset_wires(ch, ch.wires)

\* Chip.is_fully_connected
is_fully_connected(ch) ==
    \A i \in DOMAIN ch.wires : is_wire_connected(ch.objs[ch.wires[i]])

\* Chip.get_intersection_coords
get_intersection_coords(ch) ==
    {c \in Keys(ch.occ) : GATE \notin At(ch.occ, c) /\ Cardinality(At(ch.occ, c)) > 1}

\* Chip.get_wire_intersect_amount
get_wire_intersect_amount(ch) ==
    LET ic == get_intersection_coords(ch)
        three == {c \in ic : Cardinality(At(ch.occ, c)) > 2}
    IN  2 * Cardinality(three) + Cardinality(ic \ three)

\* the segment set built in Chip.wires_in_collision: range(wire.length - 1)
collision_segments_set(w) ==
    {{w.segs[i], w.segs[i + 1]} : i \in 1..(length(w) - 1)}

\* Chip.wires_in_collision
wires_in_collision(wire1, wire2) ==
    collision_segments_set(wire1) \cap collision_segments_set(wire2) # {}

\* Chip.wire_segment_causes_collision
wire_segment_causes_collision(ch, neighbour, current) ==
    LET neighbour_occupancy == get_coord_occupancy(ch, neighbour, TRUE)
        current_occupancy == get_coord_occupancy(ch, current, TRUE)
        shared_wire == neighbour_occupancy \cap current_occupancy
    IN  IF neighbour_occupancy = {} \/ current_occupancy = {} THEN FALSE
        ELSE \E wire_piece \in shared_wire :
                \E i \in 1..(Len(ch.objs[wire_piece].segs) - 1) :
                    {current, neighbour} = {ch.objs[wire_piece].segs[i],
                                            ch.objs[wire_piece].segs[i + 1]}

\* Chip.get_grid_wire_collision(boolean_output=False): for every intersection
\* cell, every 2-combination of its occupants that is in collision counts
grid_wire_collision_count(ch) ==
    LET ic == get_intersection_coords(ch)
        hits == {<<c, p>> \in ic \X SUBSET LiveIds(ch) :
                    /\ Cardinality(p) = 2
                    /\ p \subseteq At(ch.occ, c)
                    /\ \E w1 \in p : \E w2 \in p \ {w1} :
                           wires_in_collision(ch.objs[w1], ch.objs[w2])}
    IN  Cardinality(hits)

\* Chip.get_grid_wire_collision(boolean_output=True)
grid_wire_collision_bool(ch) == grid_wire_collision_count(ch) > 0

\* utils.cost_function
cost_function(wire_length, intersect_amount, collision_amount) ==
    wire_length + INTERSECTION_COST * intersect_amount + COLLISION_COST * collision_amount

RECURSIVE SumLengths(_, _)
SumLengths(ch, i) ==
    IF i = 0 THEN 0 ELSE length(ch.objs[ch.wires[i]]) + SumLengths(ch, i - 1)

\* Chip.calc_total_grid_cost(): get_grid_wire_collision() is called with its
\* default boolean_output=True, and Python multiplies the bool as 0 or 1
calc_total_grid_cost(ch) ==
    cost_function(SumLengths(ch, Len(ch.wires)),
                  get_wire_intersect_amount(ch),
                  IF grid_wire_collision_bool(ch) THEN 1 ELSE 0)

-----------------------------------------------------------------------------
(* Path searches.  A search returns [ok, path]: ok = FALSE is Python's None,
   path is the list of interior cells (possibly empty) *)

\* the least k with 2^k >= n
RECURSIVE Log2(_)
Log2(n) == IF n <= 1 THEN 0 ELSE 1 + Log2((n + 1) \div 2)

NoPath == [ok |-> FALSE, path |-> <<>>]
Found(p) == [ok |-> TRUE, path |-> p]

\* a slice that drops one cell more than path[1:-1]
InteriorShort(path) == IF Len(path) > 2 THEN SubSeq(path, 3, Len(path) - 1) ELSE <<>>

\* path[1:-1] if len(path) > 2 else []
Interior(path) == IF Len(path) > 2 THEN SubSeq(path, 2, Len(path) - 1) ELSE <<>>

\* Greed.bfs_route: the loop over the neighbours of the dequeued cell
RECURSIVE bfs_expand(_, _, _, _, _, _, _)
bfs_expand(ch, end, allow_short_circuit, path, nbrs, queue, visited) ==
    IF nbrs = <<>> THEN [queue |-> queue, visited |-> visited]
    ELSE LET neighbour == Head(nbrs)
             current == path[Len(path)]
             occupant_set == get_coord_occupancy(ch, neighbour, FALSE)
             skip == \/ neighbour \in visited
                     \/ wire_segment_causes_collision(ch, neighbour, current)
                     \/ (GATE \in occupant_set /\ neighbour # end)
                     \/ (~allow_short_circuit /\ occupant_set # {}
                            /\ GATE \notin occupant_set)
         IN  IF skip
             THEN bfs_expand(ch, end, allow_short_circuit, path, Tail(nbrs), queue, visited)
             ELSE bfs_expand(ch, end, allow_short_circuit, path, Tail(nbrs),
                             Append(queue, path \o <<neighbour>>),
                             visited \cup {neighbour})

\* Greed.bfs_route: one turn of `while queue`, on the loop state
\* s = [queue, visited, done, result]
bfs_turn(ch, end, limit, allow_short_circuit, s) ==
    IF s.queue = <<>> THEN [s EXCEPT !.done = TRUE, !.result = NoPath]
    ELSE LET path == Head(s.queue)
             current == path[Len(path)]
         IN  IF current = end
             THEN [s EXCEPT !.done = TRUE, !.result = Found(Interior(path))]
             ELSE IF Len(path) > limit THEN [s EXCEPT !.queue = Tail(@)]
             ELSE LET r == bfs_expand(ch, end, allow_short_circuit, path,
                                      get_neighbours(current), Tail(s.queue), s.visited)
                  IN  [s EXCEPT !.queue = r.queue, !.visited = r.visited]

\* Greed.bfs_route: `while queue`, as 2^k turns (a finished loop stays put)
RECURSIVE bfs_loop(_, _, _, _, _, _)
bfs_loop(ch, end, limit, allow_short_circuit, s, k) ==
    IF s.done THEN s
    ELSE IF k = 0 THEN bfs_turn(ch, end, limit, allow_short_circuit, s)
    ELSE CHOOSE r \in {bfs_loop(ch, end, limit, allow_short_circuit, t, k - 1) :
                          t \in {bfs_loop(ch, end, limit, allow_short_circuit, s, k - 1)}} :
             TRUE

\* a bounded search that prunes one cell later than limit
bfs_route_beyond(ch, start, end, offset, allow_short_circuit) ==
    bfs_loop(ch, end, manhattan_distance(start, end) + offset + 1, allow_short_circuit,
             [queue |-> << <<start>> >>, visited |-> {start},
              done |-> FALSE, result |-> NoPath],
             Log2(Cardinality(Cells) + 1)).result

\* a bounded search that never tests allow_short_circuit
bfs_route_short_circuit(ch, start, end, offset, allow_short_circuit) ==
    bfs_loop(ch, end, manhattan_distance(start, end) + offset, TRUE,
             [queue |-> << <<start>> >>, visited |-> {start},
              done |-> FALSE, result |-> NoPath],
             Log2(Cardinality(Cells) + 1)).result

\* Greed.bfs_route (Greed_random.bfs_route is the same code); every turn
\* dequeues a path and a cell is enqueued at most once
bfs_route(ch, start, end, offset, allow_short_circuit) ==
    bfs_loop(ch, end, manhattan_distance(start, end) + offset, allow_short_circuit,
             [queue |-> << <<start>> >>, visited |-> {start},
              done |-> FALSE, result |-> NoPath],
             Log2(Cardinality(Cells) + 1)).result

\* Pseudo_random.bfs_route_exact_length: the loop over the neighbours
RECURSIVE exact_expand(_, _, _, _, _, _)
exact_expand(ch, end, path, nbrs, queue, visited) ==
    IF nbrs = <<>> THEN [queue |-> queue, visited |-> visited]
    ELSE LET neighbour == Head(nbrs)
             current == path[Len(path)]
             occupant_set == get_coord_occupancy(ch, neighbour, FALSE)
             newDist == Len(path) + 1
             skip == \/ neighbour \in Range(path)
                     \/ (GATE \in occupant_set /\ neighbour # end)
                     \/ wire_segment_causes_collision(ch, neighbour, current)
                     \/ <<neighbour, newDist>> \in visited
         IN  IF skip
             THEN exact_expand(ch, end, path, Tail(nbrs), queue, visited)
             ELSE exact_expand(ch, end, path, Tail(nbrs),
                               Append(queue, path \o <<neighbour>>),
                               visited \cup {<<neighbour, newDist>>})

\* Pseudo_random.bfs_route_exact_length: one turn of `while queue`
exact_turn(ch, end, exact_length, s) ==
    IF s.queue = <<>> THEN [s EXCEPT !.done = TRUE, !.result = NoPath]
    ELSE LET path == Head(s.queue)
             current == path[Len(path)]
             dist == Len(path)
         IN  IF current = end /\ dist = exact_length
             THEN [s EXCEPT !.done = TRUE, !.result = Found(Interior(path))]
             ELSE IF dist > exact_length THEN [s EXCEPT !.queue = Tail(@)]
             ELSE LET r == exact_expand(ch, end, path, get_neighbours(current),
                                        Tail(s.queue), s.visited)
                  IN  [s EXCEPT !.queue = r.queue, !.visited = r.visited]

\* Pseudo_random.bfs_route_exact_length: `while queue`, as 2^k turns
RECURSIVE exact_loop(_, _, _, _, _)
exact_loop(ch, end, exact_length, s, k) ==
    IF s.done THEN s
    ELSE IF k = 0 THEN exact_turn(ch, end, exact_length, s)
    ELSE CHOOSE r \in {exact_loop(ch, end, exact_length, t, k - 1) :
                          t \in {exact_loop(ch, end, exact_length, s, k - 1)}} : TRUE

\* Pseudo_random.bfs_route_exact_length; a (cell, distance) pair is enqueued
\* at most once and distances stop at exact_length + 1
bfs_route_exact_length(ch, start, end, exact_length) ==
    exact_loop(ch, end, exact_length,
               [queue |-> << <<start>> >>, visited |-> {},
                done |-> FALSE, result |-> NoPath],
               Log2(Cardinality(Cells) * (Max({exact_length, 0}) + 1) + 2)).result

\* A_star.get_existing_path_cost
get_existing_path_cost(path) == Len(path) - 1

\* A_star.get_extra_wire_cost
get_extra_wire_cost(ch, path) ==
    IF path[Len(path)] \in gate_coords THEN 0
    ELSE LET current_coords == path[Len(path)]
             parent_coords == path[Len(path) - 1]
         IN  IF get_coord_occupancy(ch, current_coords, TRUE) = {} THEN 0
             ELSE INTERSECTION_COST
                  + (IF wire_segment_causes_collision(ch, parent_coords, current_coords)
                     THEN COLLISION_COST ELSE 0)

\* A_star.heuristic_function
heuristic_function(ch, path, goal_coords) ==
    manhattan_distance(path[Len(path)], goal_coords)
        + get_existing_path_cost(path) + get_extra_wire_cost(ch, path)

\* Python's order on the coordinate tuples of the heap entries
CoordsLess(a, b) ==
    \/ a[1] < b[1]
    \/ (a[1] = b[1] /\ a[2] < b[2])
    \/ (a[1] = b[1] /\ a[2] = b[2] /\ a[3] < b[3])

\* heapq order on (cost, coords, path): a cell is pushed at most once, so
\* two entries never tie on both cost and coords
EntryLess(e, f) ==
    \/ e.cost < f.cost
    \/ (e.cost = f.cost /\ CoordsLess(e.coords, f.coords))

\* A_star.shortest_cable: the loop over the neighbours of the popped cell
RECURSIVE astar_expand(_, _, _, _, _, _, _)
astar_expand(ch, end_coords, allow_short_circuit, path, nbrs, frontier, visited) ==
    IF nbrs = <<>> THEN [frontier |-> frontier, visited |-> visited]
    ELSE LET neighbour_coords == Head(nbrs)
             current_coords == path[Len(path)]
             occupant_set == get_coord_occupancy(ch, neighbour_coords, FALSE)
             skip == \/ neighbour_coords \in visited
                     \/ neighbour_coords \in Range(path)
                     \/ wire_segment_causes_collision(ch, neighbour_coords, current_coords)
                     \/ (GATE \in occupant_set /\ neighbour_coords # end_coords)
                     \/ (~allow_short_circuit /\ occupant_set # {}
                            /\ GATE \notin occupant_set)
             neighbour_path == path \o <<neighbour_coords>>
         IN  IF skip
             THEN astar_expand(ch, end_coords, allow_short_circuit, path, Tail(nbrs),
                               frontier, visited)
             ELSE astar_expand(ch, end_coords, allow_short_circuit, path, Tail(nbrs),
                      frontier \cup {[cost |-> heuristic_function(ch, neighbour_path, end_coords),
                                      coords |-> neighbour_coords,
                                      path |-> neighbour_path]},
                      visited \cup {neighbour_coords})

\* A_star.shortest_cable: one turn of `while self.frontier`, on the loop
\* state s = [frontier, visited, done, result]
astar_turn(ch, end_coords, allow_short_circuit, s) ==
    IF s.frontier = {} THEN [s EXCEPT !.done = TRUE, !.result = NoPath]
    ELSE LET e == CHOOSE x \in s.frontier : \A y \in s.frontier \ {x} : EntryLess(x, y)
         IN  IF e.coords = end_coords
             THEN [s EXCEPT !.done = TRUE, !.result = Found(Interior(e.path))]
             ELSE LET r == astar_expand(ch, end_coords, allow_short_circuit, e.path,
                                        get_neighbours(e.coords), s.frontier \ {e},
                                        s.visited)
                  IN  [s EXCEPT !.frontier = r.frontier, !.visited = r.visited]

\* A_star.shortest_cable: `while self.frontier`, as 2^k turns
RECURSIVE astar_loop(_, _, _, _, _)
astar_loop(ch, end_coords, allow_short_circuit, s, k) ==
    IF s.done THEN s
    ELSE IF k = 0 THEN astar_turn(ch, end_coords, allow_short_circuit, s)
    ELSE CHOOSE r \in {astar_loop(ch, end_coords, allow_short_circuit, t, k - 1) :
                          t \in {astar_loop(ch, end_coords, allow_short_circuit, s, k - 1)}} :
             TRUE

\* A_star.shortest_cable up to its return: the loop state it ends in; a cell
\* is pushed at most once
shortest_cable_loop(ch, start_coords, end_coords, allow_short_circuit) ==
    astar_loop(ch, end_coords, allow_short_circuit,
               [frontier |-> {[cost |-> heuristic_function(ch, <<start_coords>>, end_coords),
                               coords |-> start_coords, path |-> <<start_coords>>]},
                visited |-> {start_coords}, done |-> FALSE, result |-> NoPath],
               Log2(Cardinality(Cells) + 1))

\* A_star.shortest_cable
shortest_cable(ch, start_coords, end_coords, allow_short_circuit) ==
    shortest_cable_loop(ch, start_coords, end_coords, allow_short_circuit).result

-----------------------------------------------------------------------------
(* Sequencers.  random.shuffle is an arbitrary permutation, given as perm *)

Perms(n) == {p \in [1..n -> 1..n] : \A i, j \in 1..n : p[i] = p[j] => i = j}
Ident(n) == [i \in 1..n |-> i]
Permute(ws, p) == [i \in DOMAIN ws |-> ws[p[i]]]

WireDistance(ch, w) ==
    LET segs == ch.objs[w].segs IN manhattan_distance(segs[1], segs[Len(segs)])

\* list.sort(key=manhattan distance of the end cells): stable
RECURSIVE SortWires(_, _)
SortWires(ch, ws) ==
    IF ws = <<>> THEN <<>>
    ELSE LET n == Len(ws)
             sorted == SortWires(ch, SubSeq(ws, 1, n - 1))
             x == ws[n]
             k == Cardinality({i \in 1..(n - 1) :
                                 WireDistance(ch, sorted[i]) <= WireDistance(ch, x)})
         IN  SubSeq(sorted, 1, k) \o <<x>> \o SubSeq(sorted, k + 1, n - 1)

\* Greed.get_wire_order: reorders chip.wires in place
get_wire_order(ch, sort_wires, shuffle_wires, perm) ==
    IF sort_wires THEN [ch EXCEPT !.wires = SortWires(ch, ch.wires)]
    ELSE IF shuffle_wires THEN [ch EXCEPT !.wires = Permute(ch.wires, perm)]
    ELSE ch

\* the sequencers' first steps on an unconnected wire: register it at both
\* gates and reset its coordinates to the two gates
register_gates(ch, w) ==
    LET start == ch.objs[w].gates[1]
        end == ch.objs[w].gates[2]
        ch1 == add_wire_segment(add_wire_segment(ch, start, w), end, w)
    IN  [ch1 EXCEPT !.objs[w].segs = <<start, end>>]

\* for coord in path: add_wire_segment_to_occupancy(coord, wire);
\*                    wire.append_wire_segment(coord)
RECURSIVE commit_path(_, _, _)
commit_path(ch, w, path) ==
    IF path = <<>> THEN ch
    ELSE LET ch1 == add_wire_segment(ch, Head(path), w)
         IN  commit_path([ch1 EXCEPT !.objs[w] = append_wire_segment(@, Head(path))],
                         w, Tail(path))

\* Greed.run: the body of the loop over the wires, at one offset
greed_route_wire(ch, w, offset) ==
    IF is_wire_connected(ch.objs[w]) THEN ch
    ELSE LET ch1 == register_gates(ch, w)
             path == bfs_route(ch1, ch1.objs[w].gates[1], ch1.objs[w].gates[2],
                               offset, FALSE)
         IN  IF path.ok THEN commit_path(ch1, w, path.path) ELSE ch1

RECURSIVE greed_pass(_, _, _)
greed_pass(ch, order, offset) ==
    IF order = <<>> THEN ch
    ELSE greed_pass(greed_route_wire(ch, Head(order), offset), Tail(order), offset)

\* Greed.run: the last resort, with short circuits allowed
greed_force_wire(ch, w) ==
    IF is_wire_connected(ch.objs[w]) THEN ch
    ELSE LET force_path == bfs_route(ch, ch.objs[w].gates[1], ch.objs[w].gates[2],
                                     1000, TRUE)
         IN  IF force_path.ok THEN commit_path(ch, w, force_path.path) ELSE ch

RECURSIVE greed_force_pass(_, _)
greed_force_pass(ch, order) ==
    IF order = <<>> THEN ch
    ELSE greed_force_pass(greed_force_wire(ch, Head(order)), Tail(order))

\* Greed.run: for offset in range(0, max_offset, 2)
RECURSIVE greed_offsets(_, _, _, _)
greed_offsets(ch, cfg, offset, perms) ==
    IF offset >= cfg.max_offset THEN ch
    ELSE LET ch1 == get_wire_order(ch, cfg.sort_wires, cfg.shuffle_wires, Head(perms))
         IN  greed_offsets(greed_pass(ch1, ch1.wires, offset), cfg, offset + 2,
                           Tail(perms))

\* number of get_wire_order calls of one Greed.run
GreedShuffles(cfg) == 1 + (IF cfg.max_offset <= 0 THEN 0 ELSE (cfg.max_offset + 1) \div 2)

\* a run that takes the last resort whatever allow_short_circuit says
greed_run_forced(ch, cfg, perms) ==
    LET ch0 == get_wire_order(ch, cfg.sort_wires, cfg.shuffle_wires, Head(perms))
        ch1 == greed_offsets(ch0, cfg, 0, Tail(perms))
    IN  greed_force_pass(ch1, ch1.wires)

\* Greed.run
greed_run(ch, cfg, perms) ==
    LET ch0 == get_wire_order(ch, cfg.sort_wires, cfg.shuffle_wires, Head(perms))
        ch1 == greed_offsets(ch0, cfg, 0, Tail(perms))
    IN  IF cfg.allow_short_circuit THEN greed_force_pass(ch1, ch1.wires) ELSE ch1

\* range(min_length - 1, max_length + 1, 2)
length_candidates(min_length, max_length) ==
    {l \in (min_length - 1)..max_length : (l - (min_length - 1)) % 2 = 0}

\* Pseudo_random.run: the body of the loop over the wires.  The candidates
\* are tried in a shuffled order and the first that has a path is committed:
\* every candidate that has a path can be the one
pr_route_wire(ch, w, max_offset) ==
    IF is_wire_connected(ch.objs[w]) THEN {ch}
    ELSE LET ch1 == register_gates(ch, w)
             start == ch1.objs[w].gates[1]
             end == ch1.objs[w].gates[2]
             min_length == manhattan_distance(start, end)
             found == {r \in {bfs_route_exact_length(ch1, start, end, l) :
                                l \in length_candidates(min_length, max_offset + min_length)} :
                         r.ok}
         IN  IF found = {} THEN {ch1}
             ELSE {commit_path(ch1, w, r.path) : r \in found}

RECURSIVE pr_pass(_, _, _)
pr_pass(ch, order, max_offset) ==
    IF order = <<>> THEN {ch}
    ELSE UNION {pr_pass(c, Tail(order), max_offset) :
                  c \in pr_route_wire(ch, Head(order), max_offset)}

\* Pseudo_random.run (get_wire_order is Greed_random's: always a shuffle)
pseudo_random_run(ch, max_offset, perm) ==
    LET ch0 == get_wire_order(ch, FALSE, TRUE, perm)
    IN  pr_pass(ch0, ch0.wires, max_offset)

\* A_star.run: the body of the loop over the wires
a_star_route_wire(ch, w) ==
    IF is_wire_connected(ch.objs[w]) THEN ch
    ELSE LET ch1 == register_gates(ch, w)
             path == shortest_cable(ch1, ch1.objs[w].gates[1], ch1.objs[w].gates[2], TRUE)
         IN  IF path.ok
             THEN [add_wire(ch1, path.path, w) EXCEPT
                      !.objs[w] = append_wire_segment_list(@, path.path)]
             ELSE ch1

RECURSIVE a_star_pass(_, _)
a_star_pass(ch, order) ==
    IF order = <<>> THEN ch
    ELSE a_star_pass(a_star_route_wire(ch, Head(order)), Tail(order))

\* A_star.run
a_star_run(ch, sort_wires, shuffle_wires, perm) ==
    LET ch0 == get_wire_order(ch, sort_wires, shuffle_wires, perm)
    IN  IF is_fully_connected(ch0) THEN ch0 ELSE a_star_pass(ch0, ch0.wires)

-----------------------------------------------------------------------------
(* A_star_optimize.  The temperature is held as 0 or 1 (any positive value):
   exponential_cooling of a positive start temperature stays positive *)

Min2(a, b) == IF a <= b THEN a ELSE b

RECURSIVE Flatten(_)
Flatten(ss) == IF ss = <<>> THEN <<>> ELSE Head(ss) \o Flatten(Tail(ss))

\* math.perm(n, k)
RECURSIVE math_perm(_, _)
math_perm(n, k) ==
    IF k > n THEN 0 ELSE IF k = 0 THEN 1 ELSE n * math_perm(n - 1, k - 1)

\* itertools.permutations(range(1, n + 1), r), in the order it yields them
RECURSIVE PositionTuples(_, _)
PositionTuples(n, r) ==
    IF r = 0 THEN << <<>> >>
    ELSE LET prev == PositionTuples(n, r - 1)
             ext(p) == LET free == SelectSeq([j \in 1..n |-> j], LAMBDA j : j \notin Range(p))
                       IN  [k \in 1..Len(free) |-> Append(p, free[k])]
         IN  Flatten([k \in 1..Len(prev) |-> ext(prev[k])])

\* itertools.permutations(chip.wires, r)
permutations(ws, r) ==
    LET pos == PositionTuples(Len(ws), r)
    IN  [k \in 1..Len(pos) |-> [j \in 1..r |-> ws[pos[k][j]]]]

\* A_star_optimize.__init__
A_star_optimize_init(ch) ==
    LET cost == calc_total_grid_cost(ch)
    IN  [current_cost |-> cost,
         best_wire_coords |-> wire_segment_list(ch),
         lowest_cost |-> cost,
         previous_lowest_cost |-> cost]

\* optimize_n_wires_1_permutation: the loop that routes the wires of the
\* tuple; `not new_path` holds for None and for the empty list
RECURSIVE route_tuple(_, _)
route_tuple(ch, ws) ==
    IF ws = <<>> THEN [ch |-> ch, revert |-> FALSE]
    ELSE LET w == Head(ws)
             new_path == shortest_cable(ch, ch.objs[w].gates[1], ch.objs[w].gates[2], TRUE)
         IN  IF ~(new_path.ok /\ new_path.path # <<>>) THEN [ch |-> ch, revert |-> TRUE]
             ELSE route_tuple(add_wire([ch EXCEPT !.objs[w] =
                                           append_wire_segment_list(@, new_path.path)],
                                       new_path.path, w),
                              Tail(ws))

\* optimize_n_wires_1_permutation: the loop that puts the old coordinates back
RECURSIVE revert_tuple(_, _, _)
revert_tuple(ch, ws, old_wire_coords) ==
    IF ws = <<>> THEN ch
    ELSE LET w == Head(ws)
             old_coords == Head(old_wire_coords)
             ch1 == reset_wire(ch, w)
             ch2 == [ch1 EXCEPT !.objs[w] = append_wire_segment_list(@, old_coords)]
         IN  revert_tuple(add_wire(ch2, old_coords, w), Tail(ws), Tail(old_wire_coords))

\* A_star_optimize.acceptance_probability is 1 for new_cost <= old_cost and
\* lies below 1 otherwise; rand is whether random.random() fell below it
accept_new_config(o, new_cost, rand) == new_cost <= o.current_cost \/ rand

\* optimize_n_wires_1_permutation: the decision on the chip `routed` that
\* the routing loop left
optimize_decide(o, ws, switch_equal_configs, rand, old_wire_coords, old_intersection_num, routed) ==
    LET new_intersection_num == get_wire_intersect_amount(routed.ch)
        revert1 == routed.revert
                    \/ (o.temperature = 0 /\ new_intersection_num > old_intersection_num)
        new_cost == IF revert1 THEN o.lowest_cost ELSE calc_total_grid_cost(routed.ch)
        revert == IF revert1 THEN TRUE
                  ELSE IF o.temperature # 0 THEN ~accept_new_config(o, new_cost, rand)
                  ELSE IF switch_equal_configs THEN new_cost > o.lowest_cost
                  ELSE new_cost >= o.lowest_cost
    IN  IF revert \/ ~is_fully_connected(routed.ch)
        THEN [ch |-> revert_tuple(routed.ch, ws, old_wire_coords), o |-> o, reverted |-> TRUE]
        ELSE [ch |-> routed.ch,
              o |-> [o EXCEPT !.current_cost = new_cost,
                              !.lowest_cost = Min2(@, new_cost),
                              !.best_wire_coords = IF new_cost < o.lowest_cost
                                                   THEN wire_segment_list(routed.ch) ELSE @],
              reverted |-> FALSE]

\* A_star_optimize.optimize_n_wires_1_permutation
optimize_n_wires_1_permutation(ch, o, ws, switch_equal_configs, rand) ==
    optimize_decide(o, ws, switch_equal_configs, rand,
                    [k \in DOMAIN ws |-> ch.objs[ws[k]].segs],
                    get_wire_intersect_amount(ch),
                    route_tuple(reset_wires(ch, ws), ws))

\* optimize: the restore of the best configuration when the loops are done
optimize_restore(ch, o) == add_entire_wires(reset_all_wires(ch), o.best_wire_coords)

-----------------------------------------------------------------------------
(* IRRA_PR / IRRA_A_star.  A temperature is held as 0 or 1 (any positive
   value); an attempt returns [ch, ok] *)

\* IRRA_PR.add_new_path
add_new_path(ch, w, new_path) ==
    add_wire([ch EXCEPT !.objs[w] = append_wire_segment_list(@, new_path)], new_path, w)

\* IRRA_PR.restore_wire
restore_wire(ch, w, old_coords) ==
    LET ch1 == reset_wire(ch, w)
    IN  add_wire([ch1 EXCEPT !.objs[w] = append_wire_segment_list(@, old_coords)],
                 old_coords, w)

\* IRRA_PR.restore_best_solution
restore_best_solution(ch, best_wire_segment_list) ==
    add_entire_wires(reset_all_wires(ch), best_wire_segment_list)

\* remove_wire_from_occupancy(wire); wire.coords_wire_segments = [gate, gate]
take_out(ch, w) ==
    [remove_wire_from_occupancy(ch, w) EXCEPT
        !.objs[w].segs = <<ch.objs[w].gates[1], ch.objs[w].gates[2]>>]

\* IRRA_PR.reroute_wire: the last part, the search without short circuits
reroute_wire_bfs_commit(ch, w, old_coords, new_path) ==
    IF new_path.ok /\ new_path.path # <<>>
    THEN [ch |-> add_new_path(ch, w, new_path.path), ok |-> TRUE]
    ELSE [ch |-> restore_wire(ch, w, old_coords), ok |-> FALSE]

reroute_wire_bfs(ch, w, cfg, old_coords) ==
    reroute_wire_bfs_commit(ch, w, old_coords,
                            bfs_route(ch, ch.objs[w].gates[1], ch.objs[w].gates[2],
                                      cfg.rerouting_offset, FALSE))

\* IRRA_PR.reroute_wire: the simulated annealing part on the path new_path.
\* acceptance_probability is 1 for a lower cost and below 1 for a higher
\* one; rand is whether random.random() fell below it
reroute_wire_annealing(ch1, w, cfg, rand, old_coords, old_cost, new_path) ==
    IF ~new_path.ok THEN reroute_wire_bfs(ch1, w, cfg, old_coords)
    ELSE IF new_path.path = <<>>
    THEN [ch |-> restore_wire(ch1, w, old_coords), ok |-> FALSE]
    ELSE LET ch2 == add_new_path(ch1, w, new_path.path)
             new_cost == calc_total_grid_cost(ch2)
         IN  IF /\ (new_cost < old_cost \/ rand)
                /\ new_cost # old_cost
                /\ is_fully_connected(ch2)
             THEN [ch |-> ch2, ok |-> TRUE]
             ELSE reroute_wire_bfs(take_out(ch2, w), w, cfg, old_coords)

\* IRRA_PR.reroute_wire
reroute_wire(ch, w, cfg, temperature, rand) ==
    IF cfg.simulated_annealing /\ temperature > 0
    THEN reroute_wire_annealing(take_out(ch, w), w, cfg, rand, ch.objs[w].segs,
                                calc_total_grid_cost(ch),
                                bfs_route(take_out(ch, w), ch.objs[w].gates[1],
                                          ch.objs[w].gates[2], cfg.rerouting_offset, TRUE))
    ELSE reroute_wire_bfs(take_out(ch, w), w, cfg, ch.objs[w].segs)

\* IRRA_PR.reroute_wire_A_star: the decision on the path new_path
reroute_wire_A_star_commit(ch, ch1, w, new_path) ==
    LET old_coords == ch.objs[w].segs
        old_intersection_amount == get_wire_intersect_amount(ch)
        old_cost == calc_total_grid_cost(ch)
        ch2 == add_wire([ch1 EXCEPT !.objs[w] = append_wire_segment_list(@, new_path.path)],
                        new_path.path, w)
        new_intersection_amount == get_wire_intersect_amount(ch2)
    IN  IF ~(new_path.ok /\ new_path.path # <<>>)
        THEN [ch |-> restore_wire(ch1, w, old_coords), ok |-> FALSE]
        ELSE IF /\ is_fully_connected(ch2)
                /\ \/ new_intersection_amount < old_intersection_amount
                   \/ /\ new_intersection_amount = old_intersection_amount
                      /\ calc_total_grid_cost(ch2) < old_cost
        THEN [ch |-> ch2, ok |-> TRUE]
        ELSE [ch |-> restore_wire(ch2, w, old_coords), ok |-> FALSE]

\* IRRA_PR.reroute_wire_A_star
reroute_wire_A_star(ch, w) ==
    reroute_wire_A_star_commit(ch, take_out(ch, w), w,
                               shortest_cable(take_out(ch, w), ch.objs[w].gates[1],
                                              ch.objs[w].gates[2], TRUE))

\* the cells of coords_list that are not gates of the wire
NotOwnGates(ch, w, coords_list) ==
    SelectSeq(coords_list, LAMBDA c : c \notin Range(ch.objs[w].gates))

\* IRRA_PR.greed_optimize: the decision on the path new_path
greed_optimize_commit(ch, ch1, w, new_path) ==
    LET old_coords == ch.objs[w].segs
        old_cost == calc_total_grid_cost(ch)
        start == ch.objs[w].gates[1]
        end == ch.objs[w].gates[2]
        put_back(c) == add_wire([c EXCEPT !.objs[w].segs = old_coords],
                                NotOwnGates(ch, w, old_coords), w)
    IN  IF new_path.ok /\ new_path.path # <<>>
        THEN LET ch2 == [add_wire(ch1, new_path.path, w) EXCEPT
                            !.objs[w].segs = <<start>> \o new_path.path \o <<end>>]
             IN  IF calc_total_grid_cost(ch2) >= old_cost \/ ~is_fully_connected(ch2)
                 THEN [ch |-> put_back(remove_coords(ch2, new_path.path, w)), ok |-> FALSE]
                 ELSE [ch |-> ch2, ok |-> TRUE]
        ELSE [ch |-> put_back(ch1), ok |-> FALSE]

\* the chip of greed_optimize while the wire is taken out
greed_take_out(ch, w) ==
    [remove_coords(ch, NotOwnGates(ch, w, ch.objs[w].segs), w) EXCEPT
        !.objs[w].segs = <<ch.objs[w].gates[1], ch.objs[w].gates[2]>>]

\* IRRA_PR.greed_optimize: the body of the loop over the wires
greed_optimize_wire(ch, w, cfg) ==
    greed_optimize_commit(ch, greed_take_out(ch, w), w,
                          bfs_route(greed_take_out(ch, w), ch.objs[w].gates[1],
                                    ch.objs[w].gates[2], cfg.rerouting_offset, FALSE))

-----------------------------------------------------------------------------
(* Construction *)

NetDistance(l, net) ==
    manhattan_distance(Layouts[l].gates[net[1]], Layouts[l].gates[net[2]])

\* sorted(netlist, key=manhattan): stable insertion of each row
RECURSIVE SortNetlist(_, _)
SortNetlist(l, raw) ==
    IF raw = <<>> THEN <<>>
    ELSE LET n == Len(raw)
             sorted == SortNetlist(l, SubSeq(raw, 1, n - 1))
             x == raw[n]
             before == {i \in 1..(n - 1) : NetDistance(l, sorted[i]) <= NetDistance(l, x)}
             k == Cardinality(before)
         IN  SubSeq(sorted, 1, k) \o <<x>> \o SubSeq(sorted, k + 1, n - 1)

\* Chip.__init__: gates registered, one two-cell Wire per netlist row
NewChip(l) ==
    LET nets == SortNetlist(l, Layouts[l].netlist)
    IN  [wires |-> [i \in DOMAIN nets |-> i],
         objs |-> [k \in 1..MaxObjs |->
                     IF k <= Len(nets)
                     THEN NewWire(Layouts[l].gates[nets[k][1]], Layouts[l].gates[nets[k][2]])
                     ELSE NoWire],
         occ |-> {<<c, GATE>> : c \in Geometry[l].gate_coords},
         occwo |-> {}]

\* Inputs of add_entire_wire: saved routes, i.e. simple lattice paths from the
\* first gate of a net to its second, not through other gates

RECURSIVE PathsFrom(_, _, _, _)
PathsFrom(l, path, goal, budget) ==
    LET current == path[Len(path)]
    IN  IF current = goal THEN {path}
        ELSE IF budget = 0 THEN {}
        ELSE UNION {PathsFrom(l, path \o <<n>>, goal, budget - 1) :
                      n \in {m \in Range(Geometry[l].neighbours[current]) :
                               /\ m \notin Range(path)
                               /\ (m \in Geometry[l].gate_coords => m = goal)
                               /\ manhattan_distance(m, goal) <= budget - 1}}

RouteTable ==
    [l \in DOMAIN Layouts |->
        [net \in Range(Layouts[l].netlist) |->
            LET a == Layouts[l].gates[net[1]]
                b == Layouts[l].gates[net[2]]
                L == manhattan_distance(a, b) + MaxLoadExtra
            IN  PathsFrom(l, <<a>>, b, L)]]

SavedRoutes(i) == RouteTable[lay][netlist[i]]

\* Heap addresses carry no meaning: the object in slot i of chip.wires gets
\* address i, the objects that are only referenced from occupancy sets follow
Normalize(ch) ==
    LET live == LiveIds(ch)
        n == Len(ch.wires)
        ghosts == live \ Range(ch.wires)
        rho == [k \in live \cup {GATE} |->
                  IF k = GATE THEN GATE
                  ELSE IF k \in ghosts THEN n + Cardinality({g \in ghosts : g <= k})
                  ELSE CHOOSE i \in DOMAIN ch.wires : ch.wires[i] = k]
    IN  [wires |-> [i \in DOMAIN ch.wires |-> i],
         objs |-> [j \in 1..MaxObjs |->
                     IF \E k \in live : rho[k] = j
                     THEN ch.objs[CHOOSE k \in live : rho[k] = j] ELSE NoWire],
         occ |-> {<<p[1], rho[p[2]]>> : p \in ch.occ},
         occwo |-> {<<p[1], rho[p[2]]>> : p \in ch.occwo}]

SetChip(ch) ==
    /\ LET norm == Normalize(ch)
       IN  /\ wires' = norm.wires
           /\ objs' = norm.objs
           /\ occupancy' = norm.occ
           /\ occupancy_without_gates' = norm.occwo
    /\ UNCHANGED <<lay, netlist>>

\* the chip is the value ch, on layout l
InitFrom(l, ch) ==
    /\ lay = l
    /\ netlist = SortNetlist(l, Layouts[l].netlist)
    /\ LET norm == Normalize(ch)
       IN  /\ wires = norm.wires
           /\ objs = norm.objs
           /\ occupancy = norm.occ
           /\ occupancy_without_gates = norm.occwo

\* Chip(chip_id, net_id, padding)
InitChip(l) == InitFrom(l, NewChip(l))

\* the rows of a saved output: per net a saved route or the two gate cells
SavedOutputs(l) ==
    LET nets == SortNetlist(l, Layouts[l].netlist)
    IN  {rows \in [DOMAIN nets -> UNION {RouteTable[l][nets[i]] : i \in DOMAIN nets}
                                    \cup {<<Layouts[l].gates[nets[i][1]],
                                            Layouts[l].gates[nets[i][2]]>> : i \in DOMAIN nets}] :
            \A i \in DOMAIN nets :
                \/ rows[i] \in RouteTable[l][nets[i]]
                \/ rows[i] = <<Layouts[l].gates[nets[i][1]], Layouts[l].gates[nets[i][2]]>>}

\* load_chip_from_csv: Chip(...) followed by add_entire_wires(rows)
InitLoaded(l) ==
    \E rows \in SavedOutputs(l) : InitFrom(l, add_entire_wires(NewChip(l), rows))

\* no algorithm object is running
NoOpt == [reroute_n_wires |-> 0]
NoIRRA == [iterations |-> 0]
NoRun == pc = "idle" /\ opt = NoOpt /\ irra = NoIRRA /\ rno = NoOpt /\ ret = [call |-> "none"]
Idle == pc = "idle" /\ UNCHANGED <<pc, opt, irra, rno, ret>>

-----------------------------------------------------------------------------
(* Operations of the Chip API *)

AddEntireWire ==
    \E i \in DOMAIN netlist : \E route \in SavedRoutes(i) :
        /\ Cardinality(LiveIds(add_entire_wire(Chip, route))) <= Len(wires) + MaxGhosts
        /\ SetChip(add_entire_wire(Chip, route))
        /\ last' = "add_entire_wire"
        /\ Idle

ResetWire ==
    \E i \in DOMAIN wires :
        /\ SetChip(reset_wire(Chip, wires[i]))
        /\ last' = "reset_wire"
        /\ Idle

ResetAllWires ==
    /\ SetChip(reset_all_wires(Chip))
    /\ last' = "reset_all_wires"
    /\ Idle

-----------------------------------------------------------------------------
(* Sequencer runs *)

GreedConfigs ==
    {[max_offset |-> MaxOffset, allow_short_circuit |-> a,
      sort_wires |-> so, shuffle_wires |-> sh] :
        a \in BOOLEAN, so \in BOOLEAN, sh \in BOOLEAN}

\* Greed(chip, max_offset, allow_short_circuit, sort_wires, shuffle_wires).run()
\* A shuffle that the next get_wire_order call shuffles again before any wire
\* is read is taken as the identity
GreedRun ==
    /\ pc = "idle"
    /\ \E cfg \in GreedConfigs :
         \E perms \in [1..GreedShuffles(cfg) -> Perms(Len(wires))] :
           /\ \A k \in DOMAIN perms :
                 (~cfg.shuffle_wires \/ cfg.sort_wires \/ (k = 1 /\ cfg.max_offset > 0))
                     => perms[k] = Ident(Len(wires))
           /\ SetChip(greed_run(Chip, cfg, perms))
           /\ last' = "greed"
           /\ Idle

\* Pseudo_random(chip, max_offset).run()
PseudoRandomRun ==
    /\ pc = "idle"
    /\ \E perm \in Perms(Len(wires)) :
         \E ch \in pseudo_random_run(Chip, MaxOffset, perm) :
           /\ SetChip(ch)
           /\ last' = "pseudo_random"
           /\ Idle

\* A_star(chip, sort_wires, shuffle_wires).run()
AStarRun ==
    /\ pc = "idle"
    /\ \E so, sh \in BOOLEAN :
         \E perm \in (IF sh /\ ~so THEN Perms(Len(wires)) ELSE {Ident(Len(wires))}) :
           /\ SetChip(a_star_run(Chip, so, sh, perm))
           /\ last' = "a_star"
           /\ Idle

\* best = chip.wire_segment_list; chip.reset_all_wires();
\* chip.add_entire_wires(best): the restore that ends
\* run_random_netlist_orders, restore_best_solution and optimize, applied to
\* the chip's own routing
RoundTrip ==
    /\ is_fully_connected(Chip)
    /\ Cardinality(LiveIds(Chip)) <= Len(wires) + MaxGhosts
    /\ SetChip(add_entire_wires(reset_all_wires(Chip), wire_segment_list(Chip)))
    /\ last' = "round_trip"
    /\ Idle

\* float('inf'), above every cost of the bounded grids
inf == 1000000000

\* self.run() of run_random_netlist_orders: sort_wires = False and
\* shuffle_wires = True
rno_runs(ch, cfg) ==
    LET n == Len(ch.wires)
        greed == [max_offset |-> cfg.max_offset,
                  allow_short_circuit |-> cfg.allow_short_circuit,
                  sort_wires |-> FALSE, shuffle_wires |-> TRUE]
    IN  IF cfg.algorithm = "Greed"
        THEN {greed_run(ch, greed, perms) :
                perms \in {p \in [1..GreedShuffles(greed) -> Perms(n)] :
                             (cfg.max_offset > 0) => p[1] = Ident(n)}}
        ELSE IF cfg.algorithm = "Pseudo_random"
        THEN UNION {pseudo_random_run(ch, cfg.max_offset, perm) : perm \in Perms(n)}
        ELSE {a_star_run(ch, FALSE, TRUE, perm) : perm \in Perms(n)}

\* run_random_netlist_orders(iterations), up to the loop; run_algorithm calls
\* it on the chip as constructed, for Greed, Pseudo_random and A_star objects;
\* max_offset is the bound of the model, or 0
RNOCreate ==
    /\ pc = "idle"
    /\ last = "init"
    /\ \E iterations \in 1..MaxIterations :
       \E cfg \in {c \in [algorithm : {"Greed", "Pseudo_random", "A_star"},
                          max_offset : {MaxOffset, 0}, allow_short_circuit : BOOLEAN] :
                     /\ (c.algorithm # "Greed") => ~c.allow_short_circuit
                     /\ (c.algorithm = "A_star") => c.max_offset = MaxOffset} :
          rno' = cfg @@ [iterations |-> iterations, i |-> 0,
                         best_wire_segment_list |-> wire_segment_list(Chip),
                         lowest_cost |-> inf, costs |-> <<>>, connected |-> <<>>,
                         before |-> [segments |-> wire_segment_list(Chip),
                                     cost |-> calc_total_grid_cost(Chip),
                                     intersections |-> get_wire_intersect_amount(Chip)]]
    /\ pc' = "rno"
    /\ last' = "rno_create"
    /\ UNCHANGED <<chipVars, opt, irra, ret>>

\* one turn of for i in range(iterations)
RNOIteration ==
    /\ pc = "rno"
    /\ rno.i < rno.iterations
    /\ \E ch \in rno_runs(reset_all_wires(Chip), rno) :
         LET cost == calc_total_grid_cost(ch)
             better == cost < rno.lowest_cost /\ is_fully_connected(ch)
         IN  /\ SetChip(ch)
             /\ rno' = [rno EXCEPT
                          !.i = @ + 1,
                          !.lowest_cost = IF better THEN cost ELSE @,
                          !.best_wire_segment_list =
                              IF better THEN wire_segment_list(ch) ELSE @,
                          !.costs = Append(@, cost),
                          !.connected = Append(@, is_fully_connected(ch))]
    /\ last' = "rno_run"
    /\ UNCHANGED <<pc, opt, irra, ret>>

\* the end of run_random_netlist_orders: the best solution is put back
RNOReturn ==
    /\ pc = "rno"
    /\ rno.i = rno.iterations
    /\ SetChip(add_entire_wires(reset_all_wires(Chip), rno.best_wire_segment_list))
    /\ pc' = "rno_done"
    /\ last' = "run_random_netlist_orders"
    /\ UNCHANGED <<opt, irra, rno, ret>>

\* Greed.bfs_route(chip, wire.gates[0], wire.gates[1], offset,
\* allow_short_circuit), as Greed.run and reroute_wire call it
BfsRouteCall ==
    /\ pc = "idle"
    /\ \E i \in DOMAIN wires, offset \in 0..MaxOffset, allow_short_circuit \in BOOLEAN :
         \E r \in {bfs_route(Chip, objs[wires[i]].gates[1], objs[wires[i]].gates[2],
                             offset, allow_short_circuit)} :
            ret' = [call |-> "bfs_route", wire |-> wires[i],
                    start |-> objs[wires[i]].gates[1], end |-> objs[wires[i]].gates[2],
                    offset |-> offset, allow_short_circuit |-> allow_short_circuit,
                    ok |-> r.ok, path |-> r.path]
    /\ pc' = "returned"
    /\ last' = "bfs_route"
    /\ UNCHANGED <<chipVars, opt, irra, rno>>

\* Pseudo_random.bfs_route_exact_length(chip, start, end, exact_length), with
\* the lengths Pseudo_random.run draws from
ExactLengthCall ==
    /\ pc = "idle"
    /\ \E i \in DOMAIN wires :
         LET start == objs[wires[i]].gates[1]
             end == objs[wires[i]].gates[2]
             min_length == manhattan_distance(start, end)
         IN  \E exact_length \in length_candidates(min_length, MaxOffset + min_length) :
               \E r \in {bfs_route_exact_length(Chip, start, end, exact_length)} :
                  ret' = [call |-> "bfs_route_exact_length", wire |-> wires[i],
                          start |-> start, end |-> end, exact_length |-> exact_length,
                          ok |-> r.ok, path |-> r.path]
    /\ pc' = "returned"
    /\ last' = "bfs_route_exact_length"
    /\ UNCHANGED <<chipVars, opt, irra, rno>>

\* A_star.shortest_cable(chip, start, end, allow_short_circuit)
ShortestCableCall ==
    /\ pc = "idle"
    /\ \E i \in DOMAIN wires, allow_short_circuit \in BOOLEAN :
         \E s \in {shortest_cable_loop(Chip, objs[wires[i]].gates[1],
                                       objs[wires[i]].gates[2], allow_short_circuit)} :
            ret' = [call |-> "shortest_cable", wire |-> wires[i],
                    start |-> objs[wires[i]].gates[1], end |-> objs[wires[i]].gates[2],
                    allow_short_circuit |-> allow_short_circuit,
                    ok |-> s.result.ok, path |-> s.result.path,
                    done |-> s.done, frontier |-> s.frontier]
    /\ pc' = "returned"
    /\ last' = "shortest_cable"
    /\ UNCHANGED <<chipVars, opt, irra, rno>>

\* Wire.append_wire_segment(coords) on a wire of the chip, the wire object
\* alone: the occupancy is the caller's business
AppendWireSegmentCall ==
    /\ pc = "idle"
    /\ \E i \in DOMAIN wires, coords \in Cells :
            ret' = [call |-> "append_wire_segment", wire |-> wires[i], coords |-> coords,
                    before |-> objs[wires[i]],
                    after |-> append_wire_segment(objs[wires[i]], coords)]
    /\ pc' = "returned"
    /\ last' = "append_wire_segment"
    /\ UNCHANGED <<chipVars, opt, irra, rno>>

-----------------------------------------------------------------------------
(* A_star_optimize(chip).optimize(reroute_n_wires, start_temperature, alpha,
   total_permutations_limit, amount_of_random_iterations), one k-tuple attempt
   per step *)

\* total_permutations_limit: the default, or one that selects random tuples
PermutationLimits == {total_permutations_limit, 1}

\* A_star_optimize.__init__ and the entry of optimize; main and IRRA create
\* the optimizer on a fully connected chip only
OptimizeCreate ==
    /\ pc = "idle"
    /\ is_fully_connected(Chip)
    /\ \E n \in 1..MaxReroute, t \in {0, 1}, limit \in PermutationLimits :
          opt' = A_star_optimize_init(Chip) @@
                 [reroute_n_wires |-> n, start_temperature |-> t,
                  total_permutations_limit |-> limit,
                  amount_of_random_iterations |-> MaxRandomIterations,
                  amount_of_wires |-> 1, improved |-> TRUE, cycle |-> 1,
                  temperature |-> t, todo |-> <<>>, iterations_left |-> 0,
                  start_cost |-> calc_total_grid_cost(Chip),
                  start_connected |-> is_fully_connected(Chip)]
    /\ pc' = "optimize"
    /\ last' = "optimize_create"
    /\ UNCHANGED <<chipVars, irra, rno, ret>>

\* optimize: the tests of the for and while loops, up to the next pass
OptimizeNextPass ==
    /\ pc = "optimize"
    /\ opt.amount_of_wires <= opt.reroute_n_wires
    /\ IF opt.improved
       THEN /\ opt' = [opt EXCEPT
                         !.temperature = opt.start_temperature,
                         !.todo = IF math_perm(Len(wires), opt.amount_of_wires)
                                        < opt.total_permutations_limit
                                  THEN permutations(wires, opt.amount_of_wires) ELSE <<>>,
                         !.iterations_left =
                                  IF math_perm(Len(wires), opt.amount_of_wires)
                                        < opt.total_permutations_limit
                                  THEN 0 ELSE opt.amount_of_random_iterations]
            /\ pc' = "optimize_pass"
       ELSE /\ opt' = [opt EXCEPT !.amount_of_wires = @ + 1, !.improved = TRUE,
                                  !.cycle = 1, !.temperature = opt.start_temperature]
            /\ pc' = "optimize"
    /\ last' = "optimize_next_pass"
    /\ UNCHANGED <<chipVars, irra, rno, ret>>

\* optimize_n_wires_1_permutation on the next tuple of the pass
OptimizeAttempt ==
    /\ pc = "optimize_pass"
    /\ \/ opt.todo # <<>>
       \/ opt.iterations_left > 0
    /\ \E ws \in (IF opt.todo # <<>> THEN {Head(opt.todo)}
                  ELSE Range(permutations(wires, opt.amount_of_wires))) :
         \E rand \in BOOLEAN :
           \E r \in {optimize_n_wires_1_permutation(Chip, opt, ws, opt.cycle = 1, rand)} :
               /\ SetChip(r.ch)
               /\ opt' = [r.o EXCEPT !.todo = IF @ = <<>> THEN @ ELSE Tail(@),
                                     !.iterations_left = IF @ = 0 THEN 0 ELSE @ - 1]
               /\ last' = IF r.reverted THEN "optimize_reverted" ELSE "optimize_accepted"
    /\ pc' = "optimize_pass"
    /\ UNCHANGED <<irra, rno, ret>>

\* a pass that always reports an improvement
OptimizePassEndRepeat ==
    /\ pc = "optimize_pass"
    /\ opt.todo = <<>>
    /\ opt.iterations_left = 0
    /\ opt' = [opt EXCEPT !.improved = TRUE,
                          !.previous_lowest_cost = opt.lowest_cost,
                          !.cycle = 2]
    /\ pc' = "optimize"
    /\ last' = "optimize_pass_end"
    /\ UNCHANGED <<chipVars, irra, rno, ret>>

\* optimize_n_wires_all_permutations / _random_permutations: the return value
OptimizePassEnd ==
    /\ pc = "optimize_pass"
    /\ opt.todo = <<>>
    /\ opt.iterations_left = 0
    /\ opt' = [opt EXCEPT !.improved = (opt.lowest_cost # opt.previous_lowest_cost),
                          !.previous_lowest_cost = opt.lowest_cost,
                          !.cycle = @ + 1]
    /\ pc' = "optimize"
    /\ last' = "optimize_pass_end"
    /\ UNCHANGED <<chipVars, irra, rno, ret>>

\* optimize: reset_all_wires and add_entire_wires(best_wire_coords)
OptimizeReturn ==
    /\ pc = "optimize"
    /\ opt.amount_of_wires > opt.reroute_n_wires
    /\ Cardinality(LiveIds(optimize_restore(Chip, opt))) <= MaxObjs
    /\ SetChip(optimize_restore(Chip, opt))
    /\ pc' = IF irra = NoIRRA THEN "optimize_done" ELSE "irra_end"
    /\ last' = "optimize_return"
    /\ UNCHANGED <<opt, irra, rno, ret>>

-----------------------------------------------------------------------------
(* IRRA_PR(chip, ...).run() and IRRA_A_star(chip, ...).run(), one input
   configuration, one reroute attempt or one wire of greed_optimize per step *)

\* defaults of IRRA_PR.__init__
intersection_limit == 0
acceptable_intersection == 3000
early_stopping_patience == 999999

\* the arguments of the constructor; A_star_rerouting with simulated_annealing
\* raises ValueError
IRRAConfigs ==
    {cfg \in [input : {"PR", "A_star"}, A_star_rerouting : BOOLEAN,
              simulated_annealing : BOOLEAN, iterations : 1..MaxIterations,
              intersection_limit : {intersection_limit},
              acceptable_intersection : {acceptable_intersection},
              early_stopping_patience : {early_stopping_patience, 0},
              max_offset : {MaxOffset}, rerouting_offset : {MaxOffset, 0},
              start_temperature : {1}] :
        ~(cfg.A_star_rerouting /\ cfg.simulated_annealing)}

\* IRRA_PR.__init__
IRRACreate ==
    /\ pc = "idle"
    /\ \E cfg \in IRRAConfigs :
          irra' = cfg @@ [best_cost |-> inf,
                          best_wire_segment_list |-> wire_segment_list(Chip),
                          all_costs |-> <<>>,
                          new_solution_iteration |-> 1,
                          optimal_solution_counter |-> 0,
                          retry |-> FALSE,
                          improved |-> TRUE, todo |-> {}, wire_index |-> 1]
    /\ pc' = "irra_input"
    /\ last' = "irra_create"
    /\ UNCHANGED <<chipVars, opt, rno, ret>>

\* super().run() of the two classes: Pseudo_random.run, or A_star.run with the
\* wire order of Greed_random
irra_input_runs(ch) ==
    IF irra.input = "PR"
    THEN UNION {pseudo_random_run(ch, irra.max_offset, perm) : perm \in Perms(Len(ch.wires))}
    ELSE {a_star_run(ch, FALSE, TRUE, perm) : perm \in Perms(Len(ch.wires))}

\* run: the head of the for loop and one input configuration (reset_all_wires
\* in every iteration but the first, and in every retry), then the while test
IRRAInput ==
    /\ pc = "irra_input"
    /\ irra.new_solution_iteration <= irra.iterations
    /\ \E ch \in irra_input_runs(IF irra.new_solution_iteration # 1 \/ irra.retry
                                 THEN reset_all_wires(Chip) ELSE Chip) :
         /\ SetChip(ch)
         /\ IF \/ ~is_fully_connected(ch)
               \/ get_wire_intersect_amount(ch) >= irra.acceptable_intersection
            THEN /\ irra' = [irra EXCEPT !.retry = TRUE]
                 /\ pc' = "irra_input"
            ELSE /\ irra' = [irra EXCEPT !.retry = FALSE, !.improved = TRUE,
                                         !.optimal_solution_counter = 0]
                 /\ pc' = "irra_reroute"
    /\ last' = "irra_input"
    /\ UNCHANGED <<opt, rno, ret>>

\* intersections_rerouting / intersections_rerouting_A_star: the while test
\* and the intersection cells the for loop will visit
IRRARerouteLoop ==
    /\ pc = "irra_reroute"
    /\ IF irra.improved /\ get_wire_intersect_amount(Chip) # 0
       THEN /\ irra' = [irra EXCEPT !.improved = FALSE,
                                    !.todo = get_intersection_coords(Chip)]
            /\ pc' = "irra_sweep"
       ELSE /\ irra' = [irra EXCEPT !.todo = {}, !.wire_index = 1]
            /\ pc' = IF irra.A_star_rerouting THEN "irra_a_star_optimize"
                     ELSE "irra_greed"
    /\ last' = "irra_reroute_loop"
    /\ UNCHANGED <<chipVars, opt, rno, ret>>

\* the body of the for loop: one intersection cell, a random wire on it and
\* reroute_wire or reroute_wire_A_star; the set is visited in any order
IRRARerouteAttempt ==
    /\ pc = "irra_sweep"
    /\ \E coord \in irra.todo :
         LET occupation_set == get_coord_occupancy(Chip, coord, TRUE)
             rest == irra.todo \ {coord}
         IN  IF Cardinality(occupation_set) < 2
             THEN /\ irra' = [irra EXCEPT !.todo = rest]
                  /\ pc' = IF rest = {} THEN "irra_reroute" ELSE "irra_sweep"
                  /\ last' = "reroute_skipped"
                  /\ UNCHANGED chipVars
             ELSE \E wire_to_fix \in occupation_set, rand \in BOOLEAN :
                    \E r \in {IF irra.A_star_rerouting
                                THEN reroute_wire_A_star(Chip, wire_to_fix)
                                ELSE reroute_wire(Chip, wire_to_fix, irra,
                                                  irra.start_temperature, rand)} :
                        /\ SetChip(r.ch)
                        /\ irra' = [irra EXCEPT !.improved = r.ok,
                                                !.todo = IF r.ok THEN {} ELSE rest]
                        /\ pc' = IF r.ok \/ rest = {} THEN "irra_reroute"
                                 ELSE "irra_sweep"
                        /\ last' = IF r.ok THEN "reroute_accepted" ELSE "reroute_failed"
    /\ UNCHANGED <<opt, rno, ret>>

\* greed_optimize: the next wire of the loop over chip.wires
IRRAGreedOptimizeWire ==
    /\ pc = "irra_greed"
    /\ irra.wire_index <= Len(wires)
    /\ \E r \in {greed_optimize_wire(Chip, wires[irra.wire_index], irra)} :
           /\ SetChip(r.ch)
           /\ last' = IF r.ok THEN "greed_optimize_kept" ELSE "greed_optimize_reverted"
    /\ irra' = [irra EXCEPT !.wire_index = @ + 1]
    /\ pc' = IF irra.wire_index = Len(wires) THEN "irra_end" ELSE "irra_greed"
    /\ UNCHANGED <<opt, rno, ret>>

\* A_star_optimize_chip: A_star_optimize(chip, allow_short_circuit=True)
\* .optimize(reroute_n_wires=1) with the defaults of optimize
IRRAAStarOptimizeChip ==
    /\ pc = "irra_a_star_optimize"
    /\ opt' = A_star_optimize_init(Chip) @@
              [reroute_n_wires |-> 1, start_temperature |-> 0,
               total_permutations_limit |-> total_permutations_limit,
               amount_of_random_iterations |-> MaxRandomIterations,
               amount_of_wires |-> 1, improved |-> TRUE, cycle |-> 1,
               temperature |-> 0, todo |-> <<>>, iterations_left |-> 0,
               start_cost |-> calc_total_grid_cost(Chip),
               start_connected |-> is_fully_connected(Chip)]
    /\ pc' = "optimize"
    /\ last' = "optimize_create"
    /\ UNCHANGED <<chipVars, irra, rno, ret>>

\* run: the end of the body of the for loop, the costs and the early stop
IRRAEndIteration ==
    /\ pc = "irra_end"
    /\ LET current_cost == calc_total_grid_cost(Chip)
           current_intersections == get_wire_intersect_amount(Chip)
           better == current_cost < irra.best_cost
           best_cost == IF better THEN current_cost ELSE irra.best_cost
           counter == (IF better THEN 0 ELSE irra.optimal_solution_counter)
                        + (IF current_cost = best_cost THEN 1 ELSE 0)
           stop == /\ current_intersections <= irra.intersection_limit
                   /\ counter > irra.early_stopping_patience
       IN  /\ irra' = [irra EXCEPT
                         !.all_costs = Append(@, current_cost),
                         !.best_cost = best_cost,
                         !.best_wire_segment_list =
                             IF better THEN wire_segment_list(Chip) ELSE @,
                         !.optimal_solution_counter = counter,
                         !.new_solution_iteration = IF stop THEN @ ELSE @ + 1]
           /\ pc' = IF stop \/ irra.new_solution_iteration = irra.iterations
                    THEN "irra_restore" ELSE "irra_input"
           /\ last' = IF stop THEN "irra_early_stop" ELSE "irra_end_iteration"
    /\ UNCHANGED <<chipVars, opt, rno, ret>>

\* run: restore_best_solution and the return
IRRAReturn ==
    /\ pc = "irra_restore"
    /\ Cardinality(LiveIds(restore_best_solution(Chip, irra.best_wire_segment_list)))
          <= MaxObjs
    /\ SetChip(restore_best_solution(Chip, irra.best_wire_segment_list))
    /\ pc' = "irra_done"
    /\ last' = "irra_return"
    /\ UNCHANGED <<opt, irra, rno, ret>>

-----------------------------------------------------------------------------
(* Reference quantities of the data model *)

\* the cells a wire object runs through, and its unit edges (all of them)
CellsOfWire(w) == Range(w.segs)
EdgeSet(w) == {{w.segs[i], w.segs[i + 1]} : i \in 1..(Len(w.segs) - 1)}

\* sum over the non-gate cells that hold two or more wires of (wires - 1)
RECURSIVE SumOver(_, _)
SumOver(S, f) ==
    IF S = {} THEN 0
    ELSE LET c == CHOOSE x \in S : TRUE IN f[c] + SumOver(S \ {c}, f)

IntersectionCount ==
    LET shared == {c \in Keys(occupancy_without_gates) \ gate_coords :
                      Cardinality(At(occupancy_without_gates, c)) >= 2}
    IN  SumOver(shared, [c \in shared |-> Cardinality(At(occupancy_without_gates, c)) - 1])

\* unordered pairs of distinct wires of chip.wires that share a unit edge
CollidingPairs ==
    {p \in SUBSET Range(wires) :
        /\ Cardinality(p) = 2
        /\ \E w1 \in p : \E w2 \in p \ {w1} : EdgeSet(objs[w1]) \cap EdgeSet(objs[w2]) # {}}

CollisionCount == Cardinality(CollidingPairs)

TotalLength == SumLengths(Chip, Len(wires))

\* cells that occur in some wire or some occupancy entry
UsedCells == Keys(occupancy) \cup UNION {CellsOfWire(objs[wires[i]]) : i \in DOMAIN wires}

-----------------------------------------------------------------------------
(* Claims *)

\* C1: the total cost is the summed wire length plus 300 per intersection
\* plus 1000000 per colliding pair of wires.
C1_CostFormula ==
    calc_total_grid_cost(Chip) =
        TotalLength + INTERSECTION_COST * IntersectionCount
                    + COLLISION_COST * CollisionCount

\* C2: the intersection amount is the sum over shared non-gate cells of
\* (number of wires in the cell) - 1, for any number of wires.
C2_IntersectAmount == get_wire_intersect_amount(Chip) = IntersectionCount

\* C3: the collision count is the number of unordered pairs of distinct wires
\* that share at least one unit edge, each pair counted once.
C3_CollisionPairs == grid_wire_collision_count(Chip) = CollisionCount

\* C4: wire_segment_causes_collision(a, b) is true exactly when some wire of
\* chip.wires has a and b as consecutive cells.
C4_EdgeQuery ==
    \A a \in UsedCells : \A b \in UsedCells :
        are_points_neighbours(a, b) =>
            (wire_segment_causes_collision(Chip, a, b) <=>
                \E i \in DOMAIN wires : {a, b} \in EdgeSet(objs[wires[i]]))

\* C5: a wire of chip.wires is in the occupancy set of a cell exactly when the
\* cell is one of its segments, the two gate cells included.
C5_OccupancyLockStep ==
    \A i \in DOMAIN wires : \A c \in UsedCells :
        wires[i] \in At(occupancy, c) <=> c \in CellsOfWire(objs[wires[i]])

\* C9: once optimize has returned, on a chip that was fully connected when
\* the optimizer was created: the chip is fully connected and its cost is
\* lowest_cost, which is at most the cost at the start; and no step of the
\* run raised lowest_cost
C9_OptimizeResult ==
    /\ []((pc = "optimize_done" /\ opt.start_connected)
            => /\ is_fully_connected(Chip)
               /\ calc_total_grid_cost(Chip) = opt.lowest_cost
               /\ opt.lowest_cost <= opt.start_cost)
    /\ [][(pc # "idle") => opt'.lowest_cost <= opt.lowest_cost]_vars

\* C6: no step introduces a collision: from a chip on which no two wires
\* share a unit edge, a sequencer run, a restore of the best solution or an
\* optimizer step leads to a chip on which no two wires share a unit edge
C6_NoNewCollision ==
    [][(CollidingPairs = {}) => (CollidingPairs' = {})]_vars

\* C8: a reverted k-tuple attempt of the optimizer leaves the segments of
\* every wire and the occupancy set of every cell, gate cells included, as
\* they were before the attempt
C8_RevertIsExact ==
    [][(pc = "optimize_pass" /\ last' = "optimize_reverted")
          => (wire_segment_list(Chip)' = wire_segment_list(Chip)
                /\ occupancy' = occupancy)]_vars

\* C7: every rejected or failed IRRA reroute attempt (reroute_wire,
\* reroute_wire_A_star, a wire of greed_optimize) leaves every wire's segment
\* list and the occupancy set of every cell as they were before the attempt
C7_RejectedRerouteIsExact ==
    [][(pc \in {"irra_sweep", "irra_greed"}
          /\ last' \in {"reroute_failed", "greed_optimize_reverted"})
         => (wire_segment_list(Chip)' = wire_segment_list(Chip)
               /\ occupancy' = occupancy)]_vars

\* the least element of a non-empty sequence of costs
MinOf(costs) == CHOOSE x \in Range(costs) : \A y \in Range(costs) : x <= y

\* C10: when IRRA_PR.run / IRRA_A_star.run returns, the chip is fully
\* connected and its total cost equals best_cost, the minimum of all_costs
C10_IRRAResult ==
    (pc = "irra_done")
        => /\ is_fully_connected(Chip)
           /\ calc_total_grid_cost(Chip) = irra.best_cost
           /\ irra.best_cost = MinOf(irra.all_costs)

\* C11: on a fully connected chip produced by the sequencers, S =
\* wire_segment_list, then reset_all_wires, then add_entire_wires(S) leaves the
\* chip fully connected with the same segment lists, the same intersection
\* count and the same cost, also when two nets join the same pair of gates
C11_RoundTrip ==
    [][(last' = "round_trip")
          => /\ is_fully_connected(Chip)'
             /\ wire_segment_list(Chip)' = wire_segment_list(Chip)
             /\ get_wire_intersect_amount(Chip)' = get_wire_intersect_amount(Chip)
             /\ calc_total_grid_cost(Chip)' = calc_total_grid_cost(Chip)]_vars

\* C12: in every state chip.wires[i] joins the two gates named by
\* chip.netlist[i], so row i of save_output pairs a net with its own wire
C12_WiresInNetlistOrder ==
    \A i \in DOMAIN wires :
        Range(objs[wires[i]].gates) =
            {Layouts[lay].gates[netlist[i][1]], Layouts[lay].gates[netlist[i][2]]}

\* the costs of the runs of run_random_netlist_orders that ended fully connected
ConnectedCosts == {rno.costs[k] : k \in {j \in DOMAIN rno.costs : rno.connected[j]}}

\* two lists of segment lists hold the same routes, each as often
SameRoutes(a, b) ==
    \A r \in Range(a) \cup Range(b) :
        Cardinality({i \in DOMAIN a : a[i] = r}) = Cardinality({i \in DOMAIN b : b[i] = r})

\* C13: when run_random_netlist_orders returns, either some run ended fully
\* connected, and then the chip is fully connected at the lowest cost of those
\* runs, or none did, and then the chip holds the routes, the cost and the
\* intersections it had before the call
C13_RandomNetlistOrders ==
    (pc = "rno_done")
        => IF ConnectedCosts # {}
           THEN /\ is_fully_connected(Chip)
                /\ \A c \in ConnectedCosts : calc_total_grid_cost(Chip) <= c
                /\ calc_total_grid_cost(Chip) \in ConnectedCosts
           ELSE /\ SameRoutes(wire_segment_list(Chip), rno.before.segments)
                /\ calc_total_grid_cost(Chip) = rno.before.cost
                /\ get_wire_intersect_amount(Chip) = rno.before.intersections

\* C14: in every state the occupancy set of every gate coordinate holds the
\* GATE sentinel
C14_GateSentinelKept ==
    \A c \in gate_coords : GATE \in At(occupancy, c)

\* an IRRA run has rerouted a wire, then greed_optimize has taken wires out,
\* and the gate cells, which some wire is registered at, still hold GATE
C14_Witness ==
    /\ pc = "irra_done"
    /\ \E c \in gate_coords : At(occupancy, c) \ {GATE} # {}
    /\ \A c \in gate_coords : GATE \in At(occupancy, c)

\* the interior cells of the wires of the chip
InteriorCells == UNION {Range(Interior(objs[wires[i]].segs)) : i \in DOMAIN wires}

\* C15: no interior cell of a wire is a gate coordinate
C15_NoWireThroughGate ==
    InteriorCells \cap {Layouts[lay].gates[g] : g \in DOMAIN Layouts[lay].gates} = {}

\* a finished IRRA run on the chip with three gates: both wires that leave
\* gate 1 are routed around the gate they do not end at
C15_Witness ==
    /\ pc = "irra_done"
    /\ lay = 2
    /\ is_fully_connected(Chip)
    /\ InteriorCells \cap gate_coords = {}

\* C16: every cell of every wire lies in the inclusive grid ranges:
\* x and y from 1 - padding to the largest gate coordinate + padding, z in 0..7
C16_WiresInsideGrid ==
    \A i \in DOMAIN wires : \A c \in Range(objs[wires[i]].segs) :
        /\ 1 - padding <= c[1] /\ c[1] <= Max({g[1] : g \in Range(Layouts[lay].gates)}) + padding
        /\ 1 - padding <= c[2] /\ c[2] <= Max({g[2] : g \in Range(Layouts[lay].gates)}) + padding
        /\ 0 <= c[3] /\ c[3] <= 7

\* a finished IRRA run left a wire that runs along the border of the grid
C16_Witness ==
    /\ pc = "irra_done"
    /\ \E c \in InteriorCells : c[1] \in Range(grid_range_x) \/ c[2] \in Range(grid_range_y)
    /\ \A c \in InteriorCells : coord_within_boundaries(c)

\* the cells of the returned path, from start to end
FullPath == <<ret.start>> \o ret.path \o <<ret.end>>

\* C17: a path returned by bfs_route has at most manhattan(start, end) +
\* offset edges, the edges being one more than its interior cells
C17_BoundedBFS ==
    (ret.call = "bfs_route" /\ ret.ok)
        => Len(ret.path) + 1 <= manhattan_distance(ret.start, ret.end) + ret.offset

\* a detour that uses the whole allowance of a positive offset
C17_Witness ==
    /\ ret.call = "bfs_route" /\ ret.ok
    /\ ret.offset > 0
    /\ Len(ret.path) + 1 = manhattan_distance(ret.start, ret.end) + ret.offset

\* C18: with allow_short_circuit false, no interior cell of the path returned
\* by bfs_route holds a wire when the search is called, and laying the path
\* on an unrouted wire adds no intersection
C18_NoShortCircuit ==
    (ret.call = "bfs_route" /\ ~ret.allow_short_circuit /\ ret.ok)
        => /\ \A c \in Range(ret.path) : At(occupancy, c) \ {GATE} = {}
           /\ (objs[ret.wire].segs = objs[ret.wire].gates)
                 => get_intersection_coords(commit_path(Chip, ret.wire, ret.path))
                        = get_intersection_coords(Chip)

\* a path found around the cells of another wire, for a wire that is unrouted
C18_Witness ==
    /\ ret.call = "bfs_route" /\ ~ret.allow_short_circuit /\ ret.ok
    /\ objs[ret.wire].segs = objs[ret.wire].gates
    /\ Len(ret.path) + 1 > manhattan_distance(ret.start, ret.end)
    /\ \E c \in Keys(occupancy_without_gates) : c \notin gate_coords
    /\ \A c \in Range(ret.path) : At(occupancy, c) \ {GATE} = {}

\* C19: a path returned by bfs_route_exact_length(exact_length = L) has
\* exactly L edges from start to end
C19_ExactLength ==
    (ret.call = "bfs_route_exact_length" /\ ret.ok)
        => Len(FullPath) - 1 = ret.exact_length

\* C20: shortest_cable returns None only with an empty frontier, and the
\* cells of a returned path, start and end added, are neighbours in turn
C20_AStarResult ==
    (ret.call = "shortest_cable")
        => IF ret.ok
           THEN \A k \in 1..(Len(FullPath) - 1) :
                    manhattan_distance(FullPath[k], FullPath[k + 1]) = 1
           ELSE ret.done /\ ret.frontier = {}

\* shortest_cable has returned None for a wire whose start gate is walled in
C20_Witness ==
    /\ ret.call = "shortest_cable" /\ ~ret.ok
    /\ ret.done /\ ret.frontier = {}

\* C21: the outcome of a random sequencer depends on the seed and the initial
\* chip only.  The seed fixes the draws of the generator: the permutations of
\* random.shuffle, the values of random.random and the position that
\* random.choice takes from tuple(occupation_set).  Which wire stands at that
\* position is the iteration order of a set of Wire objects, which are hashed
\* by address, so the run is a function of seed and chip only if every wire
\* of occupation_set leads to the same segments
C21_SeedDeterminism ==
    (pc = "irra_sweep")
        => \A coord \in irra.todo, rand \in BOOLEAN :
             \A w1, w2 \in get_coord_occupancy(Chip, coord, TRUE) :
               \A r1 \in {IF irra.A_star_rerouting THEN reroute_wire_A_star(Chip, w1)
                           ELSE reroute_wire(Chip, w1, irra, irra.start_temperature, rand)} :
                 \A r2 \in {IF irra.A_star_rerouting THEN reroute_wire_A_star(Chip, w2)
                             ELSE reroute_wire(Chip, w2, irra, irra.start_temperature, rand)} :
                    wire_segment_list(r1.ch) = wire_segment_list(r2.ch)


\* every wire of the chip is its two gate cells
Unrouted(ch) == \A i \in DOMAIN ch.wires : ch.objs[ch.wires[i]].segs = ch.objs[ch.wires[i]].gates

\* the largest offset of range(0, max_offset, 2)
LargestOffset(max_offset) == CHOOSE o \in 0..max_offset : o < max_offset /\ o % 2 = 0 /\ o + 2 >= max_offset

\* what Greed.run without short circuits leaves of an unrouted chip
GreedyOutcome(r, max_offset) ==
    /\ \A i \in DOMAIN r.wires :
          LET w == r.objs[r.wires[i]]
              d == manhattan_distance(w.gates[1], w.gates[2])
          IN  \/ w.segs = w.gates
              \/ /\ is_wire_connected(w)
                 /\ w.segs[1] = w.gates[1] /\ w.segs[Len(w.segs)] = w.gates[2]
                 /\ d <= length(w) /\ length(w) <= d + LargestOffset(max_offset)
    /\ get_wire_intersect_amount(r) = 0
    /\ grid_wire_collision_count(r) = 0

C23_IterationStartsFresh ==
    [][(pc = "irra_input" /\ last' = "irra_input")
          => \E ch \in irra_input_runs(reset_all_wires(Chip)) :
                wire_segment_list(ch) = wire_segment_list(Chip)']_vars

\* the iterations of the run so far whose cost equals best_cost
BestCostHits == Cardinality({i \in DOMAIN irra.all_costs : irra.all_costs[i] = irra.best_cost})

\* C24: at the end of every IRRA iteration the streak counter is the number of
\* iterations whose cost equals best_cost, and the run stops early exactly when
\* the intersections are at most intersection_limit and that number is above
\* early_stopping_patience
C24_EarlyStopping ==
    (last \in {"irra_end_iteration", "irra_early_stop"})
        => /\ irra.optimal_solution_counter = BestCostHits
           /\ (last = "irra_early_stop")
                 <=> /\ get_wire_intersect_amount(Chip) <= irra.intersection_limit
                     /\ BestCostHits > irra.early_stopping_patience

\* the routing loop of a tuple attempt in which a search fails only when it
\* returns no path: an empty interior is laid like any other
RECURSIVE route_tuple_found(_, _)
route_tuple_found(ch, ws) ==
    IF ws = <<>> THEN [ch |-> ch, revert |-> FALSE]
    ELSE LET w == Head(ws)
             new_path == shortest_cable(ch, ch.objs[w].gates[1], ch.objs[w].gates[2], TRUE)
         IN  IF ~new_path.ok THEN [ch |-> ch, revert |-> TRUE]
             ELSE route_tuple_found(add_wire([ch EXCEPT !.objs[w] =
                                                append_wire_segment_list(@, new_path.path)],
                                             new_path.path, w),
                                    Tail(ws))

\* whether a tuple attempt at temperature 0 is to be kept: every search found a
\* path, no more intersections, and a cost that is not higher (first cycle) or
\* lower (later cycles) than lowest_cost
KeepTuple(ch, o, ws) ==
    \E t \in {route_tuple_found(reset_wires(ch, ws), ws)} :
        /\ ~t.revert
        /\ get_wire_intersect_amount(t.ch) <= get_wire_intersect_amount(ch)
        /\ IF o.cycle = 1 THEN calc_total_grid_cost(t.ch) <= o.lowest_cost
           ELSE calc_total_grid_cost(t.ch) < o.lowest_cost

\* C25: with start temperature 0 an attempt on the next tuple of the pass is
\* kept exactly when all its searches found a path, the intersections did not
\* increase and the cost passes the test of the cycle; after every attempt the
\* cost of the chip is lowest_cost
C25_TemperatureZero ==
    [][(pc = "optimize_pass" /\ opt.start_temperature = 0
          /\ last' \in {"optimize_accepted", "optimize_reverted"})
         => /\ calc_total_grid_cost(Chip)' = opt'.lowest_cost
            /\ opt.todo # <<>>
                 => ((last' = "optimize_accepted") <=> KeepTuple(Chip, opt, Head(opt.todo)))]_vars

\* C26: the routing loop of a tuple attempt marks the tuple for revert only
\* when a search returned no path; an empty interior counts as a found path
C26_RevertOnlyOnNone ==
    (pc = "optimize_pass")
        => \A ws \in Range(permutations(wires, opt.amount_of_wires)) :
              route_tuple(reset_wires(Chip, ws), ws).revert
                  = route_tuple_found(reset_wires(Chip, ws), ws).revert

\* C27: append_wire_segment on a wire whose consecutive segments are all
\* 6-neighbours leaves a wire whose consecutive segments are all 6-neighbours,
\* for any proposed cell
C27_AppendKeepsAdjacency ==
    (ret.call = "append_wire_segment" /\ is_wire_connected(ret.before))
        => is_wire_connected(ret.after)

\* C28: at every cell without a gate, the wires in the occupancy are exactly
\* the wires of chip.wires whose segments contain the cell
C28_OccupancyLockStep ==
    \A c \in Cells :
        GATE \notin At(occupancy, c)
            => At(occupancy, c) = {wires[i] : i \in {j \in DOMAIN wires : c \in Range(objs[wires[j]].segs)}}

\* the lexicographic order on tuples of naturals of one length
RECURSIVE LexLess(_, _)
LexLess(a, b) ==
    IF a = <<>> THEN FALSE
    ELSE Head(a) < Head(b) \/ (Head(a) = Head(b) /\ LexLess(Tail(a), Tail(b)))

\* what is left of a call of optimize: the numbers of wires still to come, the
\* lowest cost at the start of the cycle, whether the loop test will pass,
\* whether the pass is still to be entered, and the tuples left in the pass
OptimizeRank ==
    <<opt.reroute_n_wires + 1 - opt.amount_of_wires,
      opt.previous_lowest_cost,
      IF opt.improved THEN 1 ELSE 0,
      IF pc = "optimize" THEN 1 ELSE 0,
      Len(opt.todo) + opt.iterations_left>>

\* C29: a call of optimize terminates: every step of its loops lowers a tuple
\* of naturals in the lexicographic order or is the return with the restore,
\* and a cycle is followed by another cycle for the same number of wires
\* exactly when it lowered lowest_cost
C29_OptimizeTerminates ==
    [][(pc \in {"optimize", "optimize_pass"})
          => /\ \A k \in DOMAIN OptimizeRank : OptimizeRank[k] \in Nat
             /\ \/ pc' = "optimize_done" /\ last' = "optimize_return"
                \/ pc' \in {"optimize", "optimize_pass"} /\ LexLess(OptimizeRank', OptimizeRank)
             /\ (pc = "optimize_pass" /\ pc' = "optimize")
                   => (opt'.improved <=> opt.lowest_cost < opt.previous_lowest_cost)]_vars

\* a call that lowered the cost, so repeated a cycle, and has returned
C29_Witness ==
    /\ pc = "optimize_done"
    /\ opt.lowest_cost < opt.start_cost

\* what is left of the rerouting loop: the intersections, the cost, whether
\* the loop test will pass, and the intersection cells left in the sweep
RerouteRank ==
    <<get_wire_intersect_amount(Chip), calc_total_grid_cost(Chip),
      IF irra.improved THEN 1 ELSE 0, Cardinality(irra.todo)>>

\* C30: without simulated annealing the rerouting loop terminates: every step
\* leaves the loop or lowers, in the lexicographic order, the tuple that
\* starts with the intersection count and the total cost, and a committed
\* reroute lowers that pair
C30_RerouteTerminates ==
    [][(pc \in {"irra_reroute", "irra_sweep"} /\ ~irra.simulated_annealing)
          => \/ pc' \in {"irra_greed", "irra_a_star_optimize"}
             \/ /\ pc' \in {"irra_reroute", "irra_sweep"}
                /\ LexLess(RerouteRank', RerouteRank)
                /\ (last' = "reroute_accepted")
                      => LexLess(SubSeq(RerouteRank', 1, 2), SubSeq(RerouteRank, 1, 2))]_vars

Init == InitChip(1) /\ last = "init" /\ NoRun

Next == AddEntireWire \/ ResetWire \/ ResetAllWires

Spec == Init /\ [][Next]_vars

\* the A-star optimizer, on a loaded chip or on the chip of an A-star run
InitOpt == (InitLoaded(2) \/ InitLoaded(3)) /\ last = "init" /\ NoRun
NextOpt ==
    \/ AStarRun
    \/ OptimizeCreate
    \/ OptimizeNextPass
    \/ OptimizeAttempt
    \/ OptimizePassEnd
    \/ OptimizeReturn
SpecOpt == InitOpt /\ [][NextOpt]_vars

\* the sequencers, on a chip that may hold saved routes
InitSeq == InitLoaded(2) /\ last = "init" /\ NoRun
NextSeq ==
    \/ ResetAllWires
    \/ GreedRun
    \/ PseudoRandomRun
    \/ AStarRun
SpecSeq == InitSeq /\ [][NextSeq]_vars

\* the sequencers and the restore, on a fresh chip
InitRun == (InitChip(2) \/ InitChip(3) \/ InitChip(4)) /\ last = "init" /\ NoRun
NextRun ==
    \/ ResetAllWires
    \/ GreedRun
    \/ PseudoRandomRun
    \/ AStarRun
    \/ RoundTrip
    \/ RNOCreate
    \/ RNOIteration
    \/ RNOReturn
SpecRun == InitRun /\ [][NextRun]_vars

\* the searches, called on a fresh chip and on the chips Greed.run leaves
NextSearch ==
    \/ GreedRun
    \/ BfsRouteCall
    \/ ExactLengthCall
    \/ ShortestCableCall
    \/ AppendWireSegmentCall
SpecSearch == InitRun /\ [][NextSearch]_vars

\* IRRA on a loaded chip (the initial states of SpecOpt); a saved output
\* without routes loads as a fresh chip
NextIRRA ==
    \/ IRRACreate
    \/ IRRAInput
    \/ IRRARerouteLoop
    \/ IRRARerouteAttempt
    \/ IRRAGreedOptimizeWire
    \/ IRRAAStarOptimizeChip
    \/ OptimizeNextPass
    \/ OptimizeAttempt
    \/ OptimizePassEnd
    \/ OptimizeReturn
    \/ IRRAEndIteration
    \/ IRRAReturn
SpecIRRA == InitOpt /\ [][NextIRRA]_vars

\* the input stage and the rerouting loop of IRRA on the layout of four nets
\* around one free cell, loaded with the two nets (1,4) and (3,2) routed
\* through that cell
InitReroute ==
    /\ \E rows \in {r \in SavedOutputs(1) : \A i \in 3..4 : <<1, 1, 0>> \in Range(r[i])} :
          InitFrom(1, add_entire_wires(NewChip(1), rows))
    /\ last = "init" /\ NoRun
SpecReroute ==
    InitReroute /\ [][IRRACreate \/ IRRAInput \/ IRRARerouteLoop \/ IRRARerouteAttempt]_vars

====
